---------------------------- MODULE Spec2Model ----------------------------
(***************************************************************************)
(* A model of the communitynotes loading / filtering pipeline              *)
(* (src/static/sourcecode): the minimum-count filter, the duplicate        *)
(* filters, the misleading-note rating filter, the ratings loader, the     *)
(* TSV reader / writer and the run_scoring orchestration.                  *)
(*                                                                         *)
(* Each component has a specification of its own (SpecTraining, ...): its  *)
(* Init draws the component's inputs from bounded sets, its actions are    *)
(* the statements of the component's code.  The variables of the other     *)
(* components stay at their idle value.                                    *)
(*                                                                         *)
(* A missing value (pandas NaN / None) is the empty sequence NA, a present *)
(* value v is the one-element sequence <<v>>.                              *)
(***************************************************************************)
EXTENDS Integers, Sequences, FiniteSets, TLC

VARIABLES
  pc,          \* position of the modelled procedure
  trInput,     \* FilterRatingsForTraining.filter: the `ratings` argument
  trRatings,   \* FilterRatingsForTraining.filter: the local `ratings`
  mlRatings,   \* FilterRatingsOfMisleadingNotes.filter: the `ratings` argument
  mlNSH,       \* FilterRatingsOfMisleadingNotes.filter: `noteStatusHistory`
  mlOut,       \* FilterRatingsOfMisleadingNotes.filter: the returned table
  dupInput,    \* FilterDuplicateNotes / FilterDuplicateRatings.filter: the argument
  dupOut,      \* ... and the outcome: the returned table or the error raised
  ldInput,     \* DataLoader._load_ratings: the table RatingsTSVReader.read returned
  ldNSH,       \* DataLoader._notes_status_history
  ldShouldFilter, \* the should_filter_not_misleading_notes argument
  ldRatings,   \* DataLoader._load_ratings: the local `ratings`
  ldError,     \* the exception _load_ratings raised, NA while none
  tsvSchema,   \* TSVReaderBase._datatype_mapping: the ordered field -> type mapping
  tsvTable,    \* the DataFrame given to DataFrameTSVWriter.write, NA when none
  tsvFile,     \* the lines of the file at the reader's / writer's path
  tsvResults,  \* TSVReaderBase.read: the local `results`, NA while not parsed
  tsvFellBack, \* TSVReaderBase.read: whether the except branch was entered
  tsvOutcome,  \* what read returned or raised, NA while it runs
  tsvFirst,    \* the outcome of the read of the file before a header was added
  runInput,    \* run_scoring: the arguments, what each reader and external call gives
  runLog,      \* run_scoring: the stages entered so far, in order
  runLoader,   \* the DataLoader's members that have been assigned
  runError,    \* the exception that left run_scoring, NA while none
  runOutput    \* the file the writer wrote and its path, NA while none

trainingVars == <<trInput, trRatings>>
misleadingVars == <<mlRatings, mlNSH, mlOut>>
duplicateVars == <<dupInput, dupOut>>
loadVars == <<ldInput, ldNSH, ldShouldFilter, ldRatings, ldError>>
tsvVars ==
  <<tsvSchema, tsvTable, tsvFile, tsvResults, tsvFellBack, tsvOutcome, tsvFirst>>
runVars == <<runInput, runLog, runLoader, runError, runOutput>>
vars ==
  <<pc, trainingVars, misleadingVars, duplicateVars, loadVars, tsvVars, runVars>>

\* The variables of a component that a specification does not run.
IdleTraining == trInput = <<>> /\ trRatings = <<>>
IdleMisleading == mlRatings = <<>> /\ mlNSH = <<>> /\ mlOut = <<>>
IdleDuplicates == dupInput = <<>> /\ dupOut = <<>>
IdleLoad ==
  /\ ldInput = <<>> /\ ldNSH = <<>> /\ ldShouldFilter = FALSE
  /\ ldRatings = <<>> /\ ldError = <<>>
IdleTSV ==
  /\ tsvSchema = <<>> /\ tsvTable = <<>> /\ tsvFile = <<>> /\ tsvResults = <<>>
  /\ tsvFellBack = FALSE /\ tsvOutcome = <<>> /\ tsvFirst = <<>>
IdleRun ==
  /\ runInput = <<>> /\ runLog = <<>> /\ runLoader = <<>> /\ runError = <<>>
  /\ runOutput = <<>>

\* What each component's specification leaves alone.
exceptTraining == <<misleadingVars, duplicateVars, loadVars, tsvVars, runVars>>
exceptMisleading == <<trainingVars, duplicateVars, loadVars, tsvVars, runVars>>
exceptDuplicates == <<trainingVars, misleadingVars, loadVars, tsvVars, runVars>>
exceptLoad == <<trainingVars, misleadingVars, duplicateVars, tsvVars, runVars>>
exceptTSV == <<trainingVars, misleadingVars, duplicateVars, loadVars, runVars>>
IdleExceptTraining ==
  IdleMisleading /\ IdleDuplicates /\ IdleLoad /\ IdleTSV /\ IdleRun
IdleExceptMisleading ==
  IdleTraining /\ IdleDuplicates /\ IdleLoad /\ IdleTSV /\ IdleRun
IdleExceptDuplicates ==
  IdleTraining /\ IdleMisleading /\ IdleLoad /\ IdleTSV /\ IdleRun
IdleExceptLoad ==
  IdleTraining /\ IdleMisleading /\ IdleDuplicates /\ IdleTSV /\ IdleRun
exceptRun == <<trainingVars, misleadingVars, duplicateVars, loadVars, tsvVars>>
IdleExceptRun ==
  IdleTraining /\ IdleMisleading /\ IdleDuplicates /\ IdleLoad /\ IdleTSV
IdleExceptTSV ==
  IdleTraining /\ IdleMisleading /\ IdleDuplicates /\ IdleLoad /\ IdleRun

\* The outcome of a call: a returned value or a raised exception.
Returned(v) == [raised |-> FALSE, value |-> v]
Raised(e) == [raised |-> TRUE, error |-> e]

NA == <<>>
Some(v) == <<v>>
IsNA(x) == x = NA

\* The sequences over S of length at most n.
SeqsUpTo(S, n) == UNION {[1..m -> S] : m \in 0..n}

\* DataFrame.drop(columns=cols) on one row.
DropColumns(row, cols) == [f \in DOMAIN row \ cols |-> row[f]]

RECURSIVE Concat(_)
\* The concatenation of a sequence of sequences.
Concat(ss) == IF ss = <<>> THEN <<>> ELSE Head(ss) \o Concat(Tail(ss))

\* The number of places of sequence s that hold v.
Occurrences(s, v) == Cardinality({i \in DOMAIN s : s[i] = v})

RECURSIVE SumOver(_, _)
\* The sum of f[k] for k in S.
SumOver(S, f) ==
  IF S = {} THEN 0
  ELSE LET k == CHOOSE e \in S : TRUE IN f[k] + SumOver(S \ {k}, f)

(***************************************************************************)
(* Minimum-count filter (ratings_filters.py, FilterRatingsForTraining).    *)
(* A ratings table is a bag of rows: a function from the row's             *)
(* (raterParticipantId, noteId) to the number of rows that carry it.  The  *)
(* thresholds are set in constants.py, which is not part of the sources;   *)
(* the model uses small values so that bounded tables cross them.          *)
(***************************************************************************)
TrainingRaters == {"rA", "rB", "rC", "rD"}
TrainingNotes == {"n1", "n2", "n3"}
TrainingKeys == [raterParticipantId : TrainingRaters, noteId : TrainingNotes]
\* The largest number of rows of a ratings table given to the filter.
MaxTrainingRatings == 6
RECURSIVE TrainingTablesUpTo(_)
\* The tables of at most n rows; rows may repeat.
TrainingTablesUpTo(n) ==
  IF n = 0 THEN {[k \in TrainingKeys |-> 0]}
  ELSE LET smaller == TrainingTablesUpTo(n - 1)
       IN smaller \cup {[T EXCEPT ![k] = @ + 1] : T \in smaller, k \in TrainingKeys}
TrainingTables == TrainingTablesUpTo(MaxTrainingRatings)

minNumRatersPerNote == 2
minNumRatingsPerRater == 2

\* ratings.groupby(noteIdKey).size(): the number of rows of note n.
SizeByNote(R, n) == SumOver({k \in DOMAIN R : k.noteId = n}, R)
\* ratings.groupby(raterParticipantIdKey).size()
SizeByRater(R, r) == SumOver({k \in DOMAIN R : k.raterParticipantId = r}, R)

\* A plausible slip: the threshold off by one.
Mutant_filter_ratings_on_notes_with_minimal_num_ratings(R) ==
  [k \in DOMAIN R |->
     IF SizeByNote(R, k.noteId) >= minNumRatersPerNote - 1 THEN R[k] ELSE 0]

_filter_ratings_on_notes_with_minimal_num_ratings(R) ==
  [k \in DOMAIN R |->
     IF SizeByNote(R, k.noteId) >= minNumRatersPerNote THEN R[k] ELSE 0]

_filter_ratings_from_raters_with_minimal_num_ratings(R) ==
  [k \in DOMAIN R |->
     IF SizeByRater(R, k.raterParticipantId) >= minNumRatingsPerRater
     THEN R[k] ELSE 0]

InitTraining ==
  /\ pc = "training_start"
  /\ trInput \in TrainingTables
  /\ trRatings = trInput
  /\ IdleExceptTraining

\* ratings_filters.py 138-141
TrainingPass1 ==
  /\ pc = "training_start"
  /\ trRatings' = _filter_ratings_on_notes_with_minimal_num_ratings(trRatings)
  /\ pc' = "training_pass1"
  /\ UNCHANGED <<trInput, exceptTraining>>

\* ratings_filters.py 143-146
TrainingPass2 ==
  /\ pc = "training_pass1"
  /\ trRatings' = _filter_ratings_from_raters_with_minimal_num_ratings(trRatings)
  /\ pc' = "training_pass2"
  /\ UNCHANGED <<trInput, exceptTraining>>

\* A plausible slip: iterating once more (a fourth, rater pass).
MutantTrainingPass3 ==
  /\ pc = "training_pass2"
  /\ trRatings' = _filter_ratings_from_raters_with_minimal_num_ratings(
                    _filter_ratings_on_notes_with_minimal_num_ratings(trRatings))
  /\ pc' = "training_done"
  /\ UNCHANGED <<trInput, exceptTraining>>

\* ratings_filters.py 148-153
TrainingPass3 ==
  /\ pc = "training_pass2"
  /\ trRatings' = _filter_ratings_on_notes_with_minimal_num_ratings(trRatings)
  /\ pc' = "training_done"
  /\ UNCHANGED <<trInput, exceptTraining>>

NextTraining == TrainingPass1 \/ TrainingPass2 \/ TrainingPass3

SpecTraining == InitTraining /\ [][NextTraining]_vars

(***************************************************************************)
(* Claims on the minimum-count filter.  The expected tables are stated     *)
(* from the input by counting row instances, not by the filter's passes.   *)
(***************************************************************************)
\* The rows of table T with a key of K, one element per row.
RowInstances(T, K) == UNION {{k} \X (1..T[k]) : k \in K}
NumRowsOnNote(T, n) ==
  Cardinality(RowInstances(T, {k \in TrainingKeys : k.noteId = n}))
NumRowsByRater(T, r) ==
  Cardinality(RowInstances(T, {k \in TrainingKeys : k.raterParticipantId = r}))
RECURSIVE TableOf(_, _)
\* The table restricted to the keys of S, as an explicit function.
TableOf(S, T) ==
  IF S = {} THEN <<>>
  ELSE LET k == CHOOSE e \in S : TRUE IN (k :> T[k]) @@ TableOf(S \ {k}, T)
KeepNotes(T) ==
  LET kept == {k \in TrainingKeys :
                 NumRowsOnNote(T, k.noteId) >= minNumRatersPerNote}
  IN TableOf(kept, T) @@ [k \in TrainingKeys |-> 0]
KeepRaters(T) ==
  LET kept == {k \in TrainingKeys :
                 NumRowsByRater(T, k.raterParticipantId) >= minNumRatingsPerRater}
  IN TableOf(kept, T) @@ [k \in TrainingKeys |-> 0]
ExpectedPass1 == KeepNotes(trInput)
ExpectedPass2 == KeepRaters(ExpectedPass1)

\* C4: FilterRatingsForTraining.filter returns exactly
\* noteCountFilter(raterCountFilter(noteCountFilter(R))), each pass counting on
\* its own input; so every rating that survives pass 2 and whose note has at
\* least minNumRatersPerNote ratings after pass 2 is in the output, whatever
\* the number of ratings its rater is left with.
C4_ThreePasses ==
  /\ pc = "training_pass1" => trRatings = ExpectedPass1
  /\ pc = "training_pass2" => trRatings = ExpectedPass2
  /\ pc = "training_done" =>
       LET e2 == ExpectedPass2
       IN /\ trRatings = KeepNotes(e2)
          /\ \A k \in TrainingKeys :
               NumRowsOnNote(e2, k.noteId) >= minNumRatersPerNote
                 => trRatings[k] = e2[k]

\* C4 witness: a rater at or over the rater threshold after pass 1 ends under
\* it, with ratings left in the output, only because pass 3 removed notes.
C4_Witness ==
  /\ pc = "training_done"
  /\ LET e1 == ExpectedPass1
         e2 == KeepRaters(e1)
     IN \E r \in TrainingRaters :
          /\ NumRowsByRater(trRatings, r) > 0
          /\ NumRowsByRater(trRatings, r) < minNumRatingsPerRater
          /\ NumRowsByRater(e1, r) >= minNumRatingsPerRater
          /\ NumRowsByRater(e2, r) >= minNumRatingsPerRater

\* C5: every noteId of the output of FilterRatingsForTraining.filter has at
\* least minNumRatersPerNote ratings in the output.
C5_NotesCompliant ==
  pc = "training_done" =>
    \A n \in TrainingNotes :
      NumRowsOnNote(trRatings, n) = 0
        \/ NumRowsOnNote(trRatings, n) >= minNumRatersPerNote

\* C5 witness: pass 3 removed a note that pass 2 left under the threshold, and
\* the output still holds ratings.
C5_Witness ==
  /\ pc = "training_done"
  /\ \E n \in TrainingNotes : NumRowsOnNote(trRatings, n) >= minNumRatersPerNote
  /\ LET e2 == ExpectedPass2
     IN \E n \in TrainingNotes :
          /\ NumRowsOnNote(trRatings, n) = 0
          /\ NumRowsOnNote(e2, n) > 0
          /\ NumRowsOnNote(e2, n) < minNumRatersPerNote

(***************************************************************************)
(* Misleading-note rating filter (ratings_filters.py,                      *)
(* FilterRatingsOfMisleadingNotes).  A table is a sequence of rows, a row  *)
(* a record.  The classification labels and the UI-launch time are set in  *)
(* constants.py, which is not part of the sources: the labels are the      *)
(* spec's, the time is a small value with times around it.                 *)
(***************************************************************************)
notesSaysTweetIsMisleadingKey == "misleading"
noteSaysTweetIsNotMisleadingKey == "not-misleading"
notMisleadingUILaunchTime == 2

MisleadingRaters == {"rA"}
MisleadingNotes == {"n1", "n2"}
RatingTimes == {1}
MisleadingRatingRows ==
  [raterParticipantId : MisleadingRaters, noteId : MisleadingNotes,
   createdAtMillis : {Some(t) : t \in RatingTimes}]
NSHTimes ==
  {NA} \cup {Some(t) : t \in (notMisleadingUILaunchTime - 1)..(notMisleadingUILaunchTime + 1)}
NSHClassifications ==
  {NA, Some(notesSaysTweetIsMisleadingKey), Some(noteSaysTweetIsNotMisleadingKey)}
NSHRows ==
  [noteId : MisleadingNotes, createdAtMillis : NSHTimes,
   classification : NSHClassifications]
\* The largest number of rows of the ratings table and of the history table.
MaxMisleadingRatings == 2
MaxNSHRows == 2

\* ratings.merge(noteStatusHistory[[noteId, createdAtMillis, classification]],
\*               on=noteId, how="left", suffixes=("", "_nsh")), for one rating:
\* one row per history row of the rating's note, in the history's order, or one
\* row with the history's columns missing when the note has none.
MergeRow(r, nsh) ==
  LET matches == SelectSeq(nsh, LAMBDA h : h.noteId = r.noteId)
  IN IF matches = <<>>
     THEN <<r @@ [createdAtMillis_nsh |-> NA, classification |-> NA]>>
     ELSE [j \in DOMAIN matches |->
             r @@ [createdAtMillis_nsh |-> matches[j].createdAtMillis,
                   classification |-> matches[j].classification]]

MergeLeft(ratings, nsh) ==
  Concat([i \in DOMAIN ratings |-> MergeRow(ratings[i], nsh)])

\* ratings_filters.py 70-76: the helper columns.
WithFlags(row) ==
  LET deletedNote == IsNA(row.classification)
  IN row @@ [deletedNote |-> deletedNote,
             notDeletedMisleading |->
               ~deletedNote
                 /\ row.classification = Some(notesSaysTweetIsMisleadingKey),
             deletedButInNSH |-> deletedNote /\ ~IsNA(row.createdAtMillis_nsh)]

\* A comparison with a missing value is False.
GreaterThan(x, t) == ~IsNA(x) /\ x[1] > t
AtMost(x, t) == ~IsNA(x) /\ x[1] <= t

\* A plausible slip: >= for >.
MutantNotDeletedNotMisleadingNewUI(row) ==
  /\ row.classification = Some(noteSaysTweetIsNotMisleadingKey)
  /\ ~IsNA(row.createdAtMillis_nsh)
  /\ row.createdAtMillis_nsh[1] >= notMisleadingUILaunchTime

\* ratings_filters.py 83-86
notDeletedNotMisleadingNewUI(row) ==
  /\ row.classification = Some(noteSaysTweetIsNotMisleadingKey)
  /\ GreaterThan(row.createdAtMillis_nsh, notMisleadingUILaunchTime)

\* ratings_filters.py 79-82 (logged only)
notDeletedNotMisleadingOldUI(row) ==
  /\ row.classification = Some(noteSaysTweetIsNotMisleadingKey)
  /\ AtMost(row.createdAtMillis_nsh, notMisleadingUILaunchTime)

\* ratings_filters.py 78 (logged only)
deletedNotInNSH(row) == row.deletedNote /\ IsNA(row.createdAtMillis_nsh)

MisleadingHelperColumns ==
  {"createdAtMillis_nsh", "classification", "deletedNote",
   "notDeletedMisleading", "deletedButInNSH"}

FilterRatingsOfMisleadingNotes(ratings, noteStatusHistory) ==
  LET merged == MergeLeft(ratings, noteStatusHistory)
      flagged == [i \in DOMAIN merged |-> WithFlags(merged[i])]
      kept == SelectSeq(flagged,
                LAMBDA row : \/ row.notDeletedMisleading
                             \/ row.deletedButInNSH
                             \/ notDeletedNotMisleadingNewUI(row))
  IN [i \in DOMAIN kept |-> DropColumns(kept[i], MisleadingHelperColumns)]

InitMisleading ==
  /\ pc = "misleading_start"
  /\ mlRatings \in SeqsUpTo(MisleadingRatingRows, MaxMisleadingRatings)
  /\ mlNSH \in SeqsUpTo(NSHRows, MaxNSHRows)
  /\ mlOut = <<>>
  /\ IdleExceptMisleading

\* ratings_filters.py 58-117
MisleadingFilter ==
  /\ pc = "misleading_start"
  /\ mlOut' = FilterRatingsOfMisleadingNotes(mlRatings, mlNSH)
  /\ pc' = "misleading_done"
  /\ UNCHANGED <<mlRatings, mlNSH, exceptMisleading>>

NextMisleading == MisleadingFilter

SpecMisleading == InitMisleading /\ [][NextMisleading]_vars

(***************************************************************************)
(* Claims on the misleading-note rating filter.                            *)
(***************************************************************************)
\* The history rows whose ratings the filter is to retain.
RetainedBy(h) ==
  \/ ~IsNA(h.classification) /\ h.classification[1] = "misleading"
  \/ IsNA(h.classification) /\ ~IsNA(h.createdAtMillis)
  \/ /\ ~IsNA(h.classification) /\ h.classification[1] = "not-misleading"
     /\ ~IsNA(h.createdAtMillis)
     /\ h.createdAtMillis[1] > notMisleadingUILaunchTime

DupNotes == {"n1", "n2"}
DupRaters == {"rA", "rB"}
DupNoteRows == [noteId : DupNotes, summary : {"s1", "s2"}]
DupRatingRows ==
  [raterParticipantId : DupRaters, noteId : DupNotes,
   helpfulnessLevel : {"HELPFUL", "NOT_HELPFUL"}]
\* The largest number of rows of a table given to a duplicate filter.
MaxDupRows == 3

\* DataFrame.drop_duplicates(): the first occurrence of each row, in order.
drop_duplicates(t) ==
  LET firsts == {i \in DOMAIN t : \A j \in 1..(i - 1) : t[j] # t[i]}
      place(n) == CHOOSE i \in firsts : Cardinality({j \in firsts : j < i}) = n - 1
  IN [n \in 1..Cardinality(firsts) |-> t[place(n)]]

NoteKey(row) == row.noteId
RatingKey(row) == <<row.raterParticipantId, row.noteId>>

\* notes_filters.py 9-24
FilterDuplicateNotes(notes) ==
  LET deduped == drop_duplicates(notes)
      num_notes == Len(deduped)
      num_unique_notes == Cardinality({NoteKey(deduped[i]) : i \in DOMAIN deduped})
  IN IF num_notes # num_unique_notes
     THEN Raised([type |-> "ValueError", unique |-> num_unique_notes,
                  total |-> num_notes])
     ELSE Returned(deduped)

\* A plausible slip: drop_duplicates(subset=[raterParticipantId, noteId]), which
\* keeps the first row of each key.
MutantFilterDuplicateRatings(ratings) ==
  LET firsts == {i \in DOMAIN ratings :
                   \A j \in 1..(i - 1) : RatingKey(ratings[j]) # RatingKey(ratings[i])}
      place(n) == CHOOSE i \in firsts : Cardinality({j \in firsts : j < i}) = n - 1
  IN Returned([n \in 1..Cardinality(firsts) |-> ratings[place(n)]])

\* ratings_filters.py 13-32
FilterDuplicateRatings(ratings) ==
  LET deduped == drop_duplicates(ratings)
      num_ratings == Len(deduped)
      \* len(ratings.groupby([raterParticipantId, noteId]).head(1))
      num_unique_rater_id_note_id_pairs ==
        Cardinality({i \in DOMAIN deduped :
                       \A j \in 1..(i - 1) :
                         RatingKey(deduped[j]) # RatingKey(deduped[i])})
  IN IF num_ratings # num_unique_rater_id_note_id_pairs
     THEN Raised([type |-> "ValueError",
                  unique |-> num_unique_rater_id_note_id_pairs,
                  total |-> num_ratings])
     ELSE Returned(deduped)

InitDuplicates ==
  /\ \/ pc = "dup_notes_start" /\ dupInput \in SeqsUpTo(DupNoteRows, MaxDupRows)
     \/ pc = "dup_ratings_start" /\ dupInput \in SeqsUpTo(DupRatingRows, MaxDupRows)
  /\ dupOut = <<>>
  /\ IdleExceptDuplicates

DuplicateNotesFilter ==
  /\ pc = "dup_notes_start"
  /\ dupOut' = FilterDuplicateNotes(dupInput)
  /\ pc' = "dup_notes_done"
  /\ UNCHANGED <<dupInput, exceptDuplicates>>

DuplicateRatingsFilter ==
  /\ pc = "dup_ratings_start"
  /\ dupOut' = FilterDuplicateRatings(dupInput)
  /\ pc' = "dup_ratings_done"
  /\ UNCHANGED <<dupInput, exceptDuplicates>>

NextDuplicates == DuplicateNotesFilter \/ DuplicateRatingsFilter

SpecDuplicates == InitDuplicates /\ [][NextDuplicates]_vars

(***************************************************************************)
(* Claims on the duplicate filters.                                        *)
(***************************************************************************)
\* The filter's primary key of a row, by the filter that ran.
DupKey(row) ==
  IF pc = "dup_notes_done" THEN <<row.noteId>>
  ELSE <<row.raterParticipantId, row.noteId>>

\* Two rows of the input share a key and differ in content.
DupKeyConflict ==
  \E i, j \in DOMAIN dupInput :
    DupKey(dupInput[i]) = DupKey(dupInput[j]) /\ dupInput[i] # dupInput[j]

\* C3: both duplicate filters either return the input with its exact
\* duplicates removed and a unique key, or raise; a same-key / different-content
\* conflict is never resolved by keeping one row.
C3_UniqueKeyOrRaise ==
  pc \in {"dup_notes_done", "dup_ratings_done"} =>
    IF dupOut.raised
    THEN dupOut.error.type = "ValueError" /\ DupKeyConflict
    ELSE LET out == dupOut.value
         IN /\ \A i, j \in DOMAIN out : DupKey(out[i]) = DupKey(out[j]) => i = j
            /\ {out[i] : i \in DOMAIN out} = {dupInput[i] : i \in DOMAIN dupInput}
            /\ ~DupKeyConflict

\* C3 witness: the ratings filter raised on a table that holds an exact
\* duplicate and two rows of one (rater, note) that differ.
C3_Witness ==
  /\ pc = "dup_ratings_done"
  /\ dupOut.raised
  /\ \E i, j \in DOMAIN dupInput : i # j /\ dupInput[i] = dupInput[j]
  /\ DupKeyConflict

(***************************************************************************)
(* Ratings loader (process_data.py, DataLoader._load_ratings), statement   *)
(* by statement.  helpfulNum is a rational [num, den].  The labels of      *)
(* helpfulnessLevel are set in constants.py, which is not part of the      *)
(* sources: the model uses the spec's.                                     *)
(***************************************************************************)
notHelpfulValueTsv == "not-helpful"
somewhatHelpfulValueTsv == "somewhat-helpful"
helpfulValueTsv == "helpful"

Zero == [num |-> 0, den |-> 1]
Half == [num |-> 1, den |-> 2]
One == [num |-> 1, den |-> 1]

LoadNotes == {"n1", "n2"}
BinaryAnswers == {NA, Some(0), Some(1)}
LevelAnswers ==
  {NA, Some(notHelpfulValueTsv), Some(somewhatHelpfulValueTsv), Some(helpfulValueTsv)}
\* Every combination of the three source fields, on either note.
LoadRatingRows ==
  [raterParticipantId : {"rA"}, noteId : LoadNotes, createdAtMillis : {Some(1)},
   helpful : BinaryAnswers, notHelpful : BinaryAnswers,
   helpfulnessLevel : LevelAnswers]
\* The rows of the tables of several rows: at most one source field answered.
LoadFewRows ==
  {r \in LoadRatingRows :
     /\ r.helpful # Some(0) /\ r.notHelpful # Some(0)
     /\ r.helpfulnessLevel \in {NA, Some(somewhatHelpfulValueTsv)}
     /\ Cardinality({f \in {"helpful", "notHelpful", "helpfulnessLevel"} :
                       r[f] # NA}) <= 1}
\* The largest number of rows of a ratings file of several rows.
MaxLoadRatings == 3
LoadTables ==
  {<<r>> : r \in LoadRatingRows} \cup SeqsUpTo(LoadFewRows, MaxLoadRatings)
\* The note status histories the loader is run with.
LoadNSHTables ==
  {<<>>,
   <<[noteId |-> "n1", createdAtMillis |-> Some(notMisleadingUILaunchTime),
      classification |-> Some(notesSaysTweetIsMisleadingKey)]>>}

\* ratings.loc[mask, helpfulNumKey] = v on one row.
Assign(row, mask, v) == IF mask THEN [row EXCEPT !.helpfulNum = Some(v)] ELSE row

\* A plausible slip: the assignments in the opposite order, so that the binary
\* fields overwrite the categorical one.
MutantPopulateHelpfulNum(row) ==
  LET r0 == row @@ [helpfulNum |-> NA]
      r1 == Assign(r0, row.helpfulnessLevel = Some(helpfulValueTsv), One)
      r2 == Assign(r1, row.helpfulnessLevel = Some(somewhatHelpfulValueTsv), Half)
      r3 == Assign(r2, row.helpfulnessLevel = Some(notHelpfulValueTsv), Zero)
      r4 == Assign(r3, row.notHelpful = Some(1), Zero)
  IN Assign(r4, row.helpful = Some(1), One)

\* process_data.py 99-104: each assignment overwrites the ones before it.
PopulateHelpfulNum(row) ==
  LET r0 == row @@ [helpfulNum |-> NA]
      r1 == Assign(r0, row.helpful = Some(1), One)
      r2 == Assign(r1, row.notHelpful = Some(1), Zero)
      r3 == Assign(r2, row.helpfulnessLevel = Some(notHelpfulValueTsv), Zero)
      r4 == Assign(r3, row.helpfulnessLevel = Some(somewhatHelpfulValueTsv), Half)
  IN Assign(r4, row.helpfulnessLevel = Some(helpfulValueTsv), One)

InitLoad ==
  /\ pc = "load_start"
  /\ ldInput \in LoadTables
  /\ ldNSH \in LoadNSHTables
  /\ ldShouldFilter \in BOOLEAN
  /\ ldRatings = ldInput
  /\ ldError = NA
  /\ IdleExceptLoad

\* process_data.py 94
LoadFilterDuplicates ==
  /\ pc = "load_start"
  /\ LET out == FilterDuplicateRatings(ldRatings)
     IN IF out.raised
        THEN pc' = "load_raised" /\ ldError' = Some(out.error)
               /\ UNCHANGED ldRatings
        ELSE pc' = "load_deduplicated" /\ ldRatings' = out.value
               /\ UNCHANGED ldError
  /\ UNCHANGED <<ldInput, ldNSH, ldShouldFilter, exceptLoad>>

\* process_data.py 99-104
LoadPopulateHelpfulNum ==
  /\ pc = "load_deduplicated"
  /\ ldRatings' = [i \in DOMAIN ldRatings |-> PopulateHelpfulNum(ldRatings[i])]
  /\ pc' = "load_populated"
  /\ UNCHANGED <<ldInput, ldNSH, ldShouldFilter, ldError, exceptLoad>>

\* A plausible slip: the rows without a value are kept.
MutantLoadDropUndefined ==
  /\ pc = "load_populated"
  /\ pc' = "load_defined"
  /\ UNCHANGED <<ldRatings, ldInput, ldNSH, ldShouldFilter, ldError, exceptLoad>>

\* process_data.py 105
LoadDropUndefined ==
  /\ pc = "load_populated"
  /\ ldRatings' = SelectSeq(ldRatings, LAMBDA row : ~IsNA(row.helpfulNum))
  /\ pc' = "load_defined"
  /\ UNCHANGED <<ldInput, ldNSH, ldShouldFilter, ldError, exceptLoad>>

\* process_data.py 107-114
LoadFilterMisleading ==
  /\ pc = "load_defined"
  /\ ldRatings' = IF ldShouldFilter
                  THEN FilterRatingsOfMisleadingNotes(ldRatings, ldNSH)
                  ELSE ldRatings
  /\ pc' = "load_done"
  /\ UNCHANGED <<ldInput, ldNSH, ldShouldFilter, ldError, exceptLoad>>

NextLoad ==
  \/ LoadFilterDuplicates
  \/ LoadPopulateHelpfulNum
  \/ LoadDropUndefined
  \/ LoadFilterMisleading

SpecLoad == InitLoad /\ [][NextLoad]_vars

(***************************************************************************)
(* Claims on the ratings loader.                                           *)
(***************************************************************************)
\* The value of the categorical field, NA when it holds none of the labels.
LevelValue(row) ==
  IF row.helpfulnessLevel = Some("not-helpful") THEN Some(Zero)
  ELSE IF row.helpfulnessLevel = Some("somewhat-helpful") THEN Some(Half)
  ELSE IF row.helpfulnessLevel = Some("helpful") THEN Some(One)
  ELSE NA

\* The unified value with the binary fields first.
BinaryFirst(row) ==
  IF row.helpful = Some(1) THEN Some(One)
  ELSE IF row.notHelpful = Some(1) THEN Some(Zero)
  ELSE LevelValue(row)

\* The unified value with the categorical field first.
CategoricalFirst(row) ==
  IF LevelValue(row) # NA THEN LevelValue(row)
  ELSE IF row.notHelpful = Some(1) THEN Some(Zero)
  ELSE IF row.helpful = Some(1) THEN Some(One)
  ELSE NA

\* C1 as claimed: helpfulNum is 1 if helpful == 1, else 0 if notHelpful == 1,
\* else the mapping of helpfulnessLevel (the binary fields win).
C1_BinaryFieldWins ==
  pc = "load_populated" =>
    \A i \in DOMAIN ldRatings : ldRatings[i].helpfulNum = BinaryFirst(ldRatings[i])

\* C1 as amended: helpfulNum is the mapping of helpfulnessLevel when that field
\* holds one of the three labels, else 0 if notHelpful == 1, else 1 if
\* helpful == 1 (the categorical field wins, and notHelpful wins over helpful).
C1_CategoricalFieldWins ==
  pc = "load_populated" =>
    \A i \in DOMAIN ldRatings :
      ldRatings[i].helpfulNum = CategoricalFirst(ldRatings[i])

\* C1 witness: a rating with helpful = 1 and helpfulnessLevel = not-helpful
\* was given the value 0.
C1_Witness ==
  /\ pc = "load_populated"
  /\ \E i \in DOMAIN ldRatings :
       /\ ldRatings[i].helpful = Some(1)
       /\ ldRatings[i].helpfulnessLevel = Some("not-helpful")
       /\ ldRatings[i].helpfulNum = Some(Zero)

\* The rows of the input for which some source field yields a value.
RowsWithValue == SelectSeq(ldInput, LAMBDA row : CategoricalFirst(row) # NA)
\* Two rows of table t share (rater, note) and differ.
KeyConflictIn(t) ==
  \E i, j \in DOMAIN t :
    /\ t[i].raterParticipantId = t[j].raterParticipantId
    /\ t[i].noteId = t[j].noteId
    /\ t[i] # t[j]
AllDefined ==
  \A i \in DOMAIN ldRatings : ~IsNA(ldRatings[i].helpfulNum)

\* C9 as claimed: the rows without a value are dropped before the uniqueness
\* check, so a key violation is raised only for a conflict among the rows that
\* have a value; and every rating of the loaded table has a helpfulNum.
C9_DroppedBeforeKeyCheck ==
  /\ pc = "load_raised" => KeyConflictIn(RowsWithValue)
  /\ pc = "load_done" => AllDefined

\* C9 as amended: the rows without a value are dropped after the duplicate
\* filter, whose uniqueness check they take part in (a key violation is raised
\* exactly for a conflict among all the rows read), and before the
\* misleading-note filter; every rating of the loaded table has a helpfulNum.
C9_DroppedAfterKeyCheck ==
  /\ pc = "load_raised" => KeyConflictIn(ldInput)
  /\ pc \notin {"load_start", "load_raised"} => ~KeyConflictIn(ldInput)
  /\ pc = "load_deduplicated" =>
       {ldRatings[i] : i \in DOMAIN ldRatings} = {ldInput[i] : i \in DOMAIN ldInput}
  /\ pc \in {"load_defined", "load_done"} => AllDefined
  /\ pc = "load_defined" =>
       \A i \in DOMAIN ldInput :
         CategoricalFirst(ldInput[i]) # NA
           => \E j \in DOMAIN ldRatings :
                DropColumns(ldRatings[j], {"helpfulNum"}) = ldInput[i]

\* C9 witness: the load raised a key violation on a rating without a value
\* and a rating with one, of the same rater and note.
C9_Witness ==
  /\ pc = "load_raised"
  /\ ldError # NA
  /\ ~KeyConflictIn(RowsWithValue)
  /\ \E i, j \in DOMAIN ldInput :
       /\ ldInput[i].noteId = ldInput[j].noteId
       /\ CategoricalFirst(ldInput[i]) = NA
       /\ CategoricalFirst(ldInput[j]) # NA

(***************************************************************************)
(* TSV reader and writer (tsv_readers/tsv_reader_base.py, TSVReaderBase;   *)
(* tsv_writers/dataframe_tsv_writer.py, DataFrameTSVWriter).               *)
(*                                                                         *)
(* A file is a sequence of lines, a line a sequence of cell texts.  A      *)
(* DataFrame is [columns, rows]: the column labels in order and the rows,  *)
(* each a sequence of values in the columns' order.  A column label is     *)
(* <<name, k>>: pandas renames the k-th repetition of a header name (k >   *)
(* 0) and names an empty header cell by its position.  A value is an       *)
(* integer, a string or NaN.  pandas.read_csv and DataFrame.to_csv are     *)
(* modelled by what they do to these texts with the arguments the code     *)
(* passes (sep, dtype, names; index=False, header=True).                   *)
(***************************************************************************)
IntVal(n) == [kind |-> "int", int |-> n, str |-> ""]
StrVal(t) == [kind |-> "str", int |-> 0, str |-> t]
NaN == [kind |-> "nan", int |-> 0, str |-> ""]

\* The integers of the tables and files.
IntValues == {7, 12}
IntTexts == {ToString(n) : n \in IntValues}
ParseInt(text) == CHOOSE n \in IntValues : ToString(n) = text
\* An empty field written in quotes.
QuotedEmpty == "\"\""
\* The texts read_csv takes for a missing value, of those in the files.
NaTexts == {"", QuotedEmpty}

Types == {"int", "str"}
\* The declared schemas: one or two fields, of either type.
Schemas ==
  {<<[name |-> "noteId", type |-> t]>> : t \in Types}
    \cup {<<[name |-> "noteId", type |-> t1], [name |-> "summary", type |-> t2]>> :
            t1 \in Types, t2 \in Types}
\* TSVReaderBase._columns
_columns(schema) == [i \in DOMAIN schema |-> schema[i].name]
Label(name) == <<name, 0>>
ExpectedLabels(schema) == {Label(schema[i].name) : i \in DOMAIN schema}
TypeOf(schema, name) ==
  LET i == CHOOSE j \in DOMAIN schema : schema[j].name = name IN schema[i].type

\* The cell texts of the files that are read.
CellTexts == {"noteId", "summary", "x", "", ToString(7)}
FileWidths == {1, 2}
\* The largest number of lines of a file that is read.
MaxFileLines == 2
\* read_csv skips a line that is empty (skip_blank_lines).
IsBlankLine(line) == line = <<"">>
SkipBlankLines(file) == SelectSeq(file, LAMBDA line : ~IsBlankLine(line))
\* The files: every line of the same width, one line at least not blank.
Files ==
  UNION {{f \in [1..m -> [1..w -> CellTexts]] : SkipBlankLines(f) # <<>>} :
           m \in 1..MaxFileLines, w \in FileWidths}

\* The values of a column of the declared type.
ValuesOf(type) ==
  IF type = "int" THEN {IntVal(n) : n \in IntValues}
  ELSE {NaN, StrVal("x"), StrVal("")}
RowsOf(schema) ==
  {r \in [DOMAIN schema -> ValuesOf("int") \cup ValuesOf("str")] :
     \A i \in DOMAIN schema : r[i] \in ValuesOf(schema[i].type)}
\* The largest number of rows of a table that is written.
MaxTableRows == 2
TablesOf(schema) ==
  {[columns |-> [i \in DOMAIN schema |-> Label(schema[i].name)], rows |-> rows] :
     rows \in SeqsUpTo(RowsOf(schema), MaxTableRows)}

\* The conversion of a cell to a declared dtype; ok is FALSE where read_csv
\* raises ValueError (a text that is no integer, a missing integer).
ConvertCell(type, text) ==
  IF type = "int"
  THEN IF text \in IntTexts
       THEN [ok |-> TRUE, value |-> IntVal(ParseInt(text))]
       ELSE [ok |-> FALSE, value |-> NaN]
  ELSE [ok |-> TRUE, value |-> IF text \in NaTexts THEN NaN ELSE StrVal(text)]

\* The value of a cell of a column without a declared dtype (it is inferred).
InferCell(text) ==
  IF text \in IntTexts THEN IntVal(ParseInt(text))
  ELSE IF text \in NaTexts THEN NaN ELSE StrVal(text)

ParseError == [type |-> "ValueError", what |-> "parse", extra |-> {}, missing |-> {}]
ColumnsError(extra, missing) ==
  [type |-> "ValueError", what |-> "columns", extra |-> extra, missing |-> missing]

\* tsv_reader_base.py 21-26: read_csv(names=self._columns, dtype=...): every
\* line is data.  A short line is padded with missing values; of a long line
\* the surplus leading fields become the row index.
ParseWithNames(file, schema) ==
  LET lines == SkipBlankLines(file)
      n == Len(schema)
      text(line, i) ==
        IF Len(line) >= n THEN line[Len(line) - n + i]
        ELSE IF i <= Len(line) THEN line[i] ELSE ""
      cell(line, i) == ConvertCell(schema[i].type, text(line, i))
  IN IF \A l \in DOMAIN lines : \A i \in DOMAIN schema : cell(lines[l], i).ok
     THEN Returned([columns |-> [i \in DOMAIN schema |-> Label(schema[i].name)],
                    rows |-> [l \in DOMAIN lines |->
                                [i \in DOMAIN schema |-> cell(lines[l], i).value]]])
     ELSE Raised(ParseError)

\* The labels read_csv gives the columns of a header line.
HeaderLabels(header) ==
  [i \in DOMAIN header |->
     IF header[i] \in NaTexts THEN <<"Unnamed", i - 1>>
     ELSE <<header[i], Cardinality({j \in 1..(i - 1) : header[j] = header[i]})>>]

\* tsv_reader_base.py 30-34: read_csv(dtype=...): the first line is the header,
\* the dtype of a column is the one declared for its label, if any.
ParseWithHeader(file, schema) ==
  LET lines == SkipBlankLines(file)
      labels == HeaderLabels(Head(lines))
      data == Tail(lines)
      declared(i) == labels[i] \in ExpectedLabels(schema)
      cell(line, i) ==
        IF declared(i) THEN ConvertCell(TypeOf(schema, labels[i][1]), line[i])
        ELSE [ok |-> TRUE, value |-> InferCell(line[i])]
  IN IF \A l \in DOMAIN data : \A i \in DOMAIN labels : cell(data[l], i).ok
     THEN Returned([columns |-> labels,
                    rows |-> [l \in DOMAIN data |->
                                [i \in DOMAIN labels |-> cell(data[l], i).value]]])
     ELSE Raised(ParseError)

\* A plausible slip: only the missing columns are looked for.
Mutant_verify_read_columns(results, schema) ==
  LET actual_columns == {results.columns[i] : i \in DOMAIN results.columns}
      expected_columns == ExpectedLabels(schema)
  IN IF ~(expected_columns \subseteq actual_columns)
     THEN Raised(ColumnsError(actual_columns \ expected_columns,
                              expected_columns \ actual_columns))
     ELSE Returned(results)

\* tsv_reader_base.py 39-54
_verify_read_columns(results, schema) ==
  LET actual_columns == {results.columns[i] : i \in DOMAIN results.columns}
      expected_columns == ExpectedLabels(schema)
  IN IF actual_columns # expected_columns
     THEN Raised(ColumnsError(actual_columns \ expected_columns,
                              expected_columns \ actual_columns))
     ELSE Returned(results)

\* dataframe_tsv_writer.py 24-29: to_csv(index=False, header=True, sep="\t").
\* A line that would be empty (one field, empty or missing) is written quoted.
FormatCell(value, width) ==
  IF value.kind = "int" THEN ToString(value.int)
  ELSE IF value.kind = "str" /\ value.str # "" THEN value.str
  ELSE IF width = 1 THEN QuotedEmpty ELSE ""
to_csv(df) ==
  <<[i \in DOMAIN df.columns |-> df.columns[i][1]]>>
    \o [l \in DOMAIN df.rows |->
          [i \in DOMAIN df.columns |-> FormatCell(df.rows[l][i], Len(df.columns))]]
\* The file holds rows only, each conforming to the schema: as many fields as
\* the schema, every one convertible to its column's type.
ConformingFile(file, schema) ==
  \A l \in DOMAIN file :
    /\ Len(file[l]) = Len(schema)
    /\ \A i \in DOMAIN schema : ConvertCell(schema[i].type, file[l][i]).ok

TSVDone == {"tsv_returned", "tsv_raised"}

\* Either a file is at the reader's path, or a table of the schema is about to
\* be written to it.
InitTSV ==
  /\ tsvSchema \in Schemas
  /\ \/ /\ pc = "tsv_file"
        /\ tsvFile \in Files
        /\ tsvTable = NA
     \/ /\ pc = "tsv_table"
        /\ tsvFile = <<>>
        /\ \E df \in TablesOf(tsvSchema) : tsvTable = Some(df)
  /\ tsvResults = NA
  /\ tsvFellBack = FALSE
  /\ tsvOutcome = NA
  /\ tsvFirst = NA
  /\ IdleExceptTSV

\* dataframe_tsv_writer.py 11-31.  The path is never None (tsv_writer_base.py
\* rejects it), so to_csv returns None and the RuntimeError is not raised.
TSVWrite ==
  /\ pc = "tsv_table"
  /\ tsvFile' = to_csv(tsvTable[1])
  /\ pc' = "tsv_file"
  /\ UNCHANGED <<tsvSchema, tsvTable, tsvResults, tsvFellBack, tsvOutcome, tsvFirst>>
  /\ UNCHANGED exceptTSV

\* tsv_reader_base.py 19-27, 37: the parse with the forced column names; its
\* table is returned, its ValueError is caught.
TSVReadFirstAttempt ==
  /\ pc = "tsv_file"
  /\ LET r == ParseWithNames(tsvFile, tsvSchema)
     IN IF r.raised
        THEN /\ pc' = "tsv_fallback"
             /\ tsvFellBack' = TRUE
             /\ UNCHANGED <<tsvResults, tsvOutcome>>
        ELSE /\ pc' = "tsv_returned"
             /\ tsvResults' = Some(r.value)
             /\ tsvOutcome' = Some(r)
             /\ UNCHANGED tsvFellBack
  /\ UNCHANGED <<tsvSchema, tsvTable, tsvFile, tsvFirst>>
  /\ UNCHANGED exceptTSV

\* tsv_reader_base.py 28-34: the parse that takes the first line for a header;
\* its ValueError is not caught.
TSVReadFallback ==
  /\ pc = "tsv_fallback"
  /\ LET r == ParseWithHeader(tsvFile, tsvSchema)
     IN IF r.raised
        THEN /\ pc' = "tsv_raised"
             /\ tsvOutcome' = Some(r)
             /\ UNCHANGED tsvResults
        ELSE /\ pc' = "tsv_verify"
             /\ tsvResults' = Some(r.value)
             /\ UNCHANGED tsvOutcome
  /\ UNCHANGED <<tsvSchema, tsvTable, tsvFile, tsvFellBack, tsvFirst>>
  /\ UNCHANGED exceptTSV

\* tsv_reader_base.py 35, 37
TSVVerifyReadColumns ==
  /\ pc = "tsv_verify"
  /\ LET v == _verify_read_columns(tsvResults[1], tsvSchema)
     IN /\ tsvOutcome' = Some(v)
        /\ pc' = IF v.raised THEN "tsv_raised" ELSE "tsv_returned"
  /\ UNCHANGED <<tsvSchema, tsvTable, tsvFile, tsvResults, tsvFellBack, tsvFirst>>
  /\ UNCHANGED exceptTSV

\* The same rows arrive again, now under a header line naming the schema's
\* columns in order, and are read again.
TSVAddHeader ==
  /\ pc \in TSVDone
  /\ tsvTable = NA
  /\ tsvFirst = NA
  /\ ConformingFile(tsvFile, tsvSchema)
  /\ tsvFirst' = tsvOutcome
  /\ tsvFile' = <<_columns(tsvSchema)>> \o tsvFile
  /\ tsvResults' = NA
  /\ tsvFellBack' = FALSE
  /\ tsvOutcome' = NA
  /\ pc' = "tsv_file"
  /\ UNCHANGED <<tsvSchema, tsvTable>>
  /\ UNCHANGED exceptTSV

NextTSV ==
  \/ TSVWrite
  \/ TSVReadFirstAttempt
  \/ TSVReadFallback
  \/ TSVVerifyReadColumns
  \/ TSVAddHeader

SpecTSV == InitTSV /\ [][NextTSV]_vars

\* The labels of the header line of the file.
FileHeaderLabels ==
  LET labels == HeaderLabels(Head(SkipBlankLines(tsvFile)))
  IN {labels[i] : i \in DOMAIN labels}

\* C6 (as stated): for every schema, the all-string ones included, a file of
\* conforming rows and the same file under a header line read to the same
\* table: the header line is never returned as a row.
C6_SameTableWithHeader ==
  (pc \in TSVDone /\ tsvFirst # NA) => tsvOutcome = tsvFirst

\* C6: what the reader does keep: when the schema has a column that is not a
\* string, both reads return the same table.
C6_SameTableWithIntColumn ==
  (pc \in TSVDone /\ tsvFirst # NA
     /\ \E i \in DOMAIN tsvSchema : tsvSchema[i].type = "int")
    => tsvOutcome = tsvFirst

\* C6: an all-string schema, whose header line has been read as a row.
C6_HeaderReadAsRow ==
  /\ pc = "tsv_returned"
  /\ tsvFirst # NA
  /\ \A i \in DOMAIN tsvSchema : tsvSchema[i].type = "str"
  /\ ~tsvFellBack
  /\ Len(tsvOutcome[1].value.rows) = Len(tsvFirst[1].value.rows) + 1

\* C7 (as stated): a table written by the writer and read back by a reader of
\* the same schema is returned equal to the table written.
C7_RoundTrip ==
  (pc \in TSVDone /\ tsvTable # NA) => tsvOutcome = Some(Returned(tsvTable[1]))

\* C7: what the round trip does keep: with a column that is not a string, the
\* table read back differs from the one written at most in empty strings,
\* which come back missing.
C7_RoundTripWithIntColumn ==
  (pc \in TSVDone /\ tsvTable # NA
     /\ \E i \in DOMAIN tsvSchema : tsvSchema[i].type = "int")
    => LET df == tsvTable[1]
           back == [df EXCEPT !.rows =
                      [l \in DOMAIN df.rows |->
                         [i \in DOMAIN df.rows[l] |->
                            IF df.rows[l][i] = StrVal("") THEN NaN
                            ELSE df.rows[l][i]]]]
       IN tsvOutcome = Some(Returned(back))

\* C7: a written table of an all-string schema has been read back with one row
\* more than was written.
C7_HeaderReadBack ==
  /\ pc = "tsv_returned"
  /\ tsvTable # NA
  /\ \A i \in DOMAIN tsvSchema : tsvSchema[i].type = "str"
  /\ Len(tsvOutcome[1].value.rows) = Len(tsvTable[1].rows) + 1

\* C10 (as stated): whenever read falls back to the header-assumed parse, it
\* returns a table only if the parsed column set equals the schema's; if any
\* column is extra or missing, the error raised enumerates the extra and the
\* missing columns.
C10_AlwaysColumnsError ==
  (tsvFellBack /\ pc \in TSVDone) =>
    LET actual == FileHeaderLabels
        expected == ExpectedLabels(tsvSchema)
    IN /\ pc = "tsv_returned" => actual = expected
       /\ actual # expected =>
            tsvOutcome = Some(Raised(ColumnsError(actual \ expected, expected \ actual)))

\* C10: whenever read falls back to the header-assumed parse, it returns a
\* table only if the parsed column set equals the schema's; if that parse
\* completes and any column is extra or missing, the error raised enumerates
\* the extra and the missing columns; if that parse fails, its own error is
\* raised; no table is returned in either case.
C10_FallbackVerifiesColumns ==
  (tsvFellBack /\ pc \in TSVDone) =>
    LET actual == FileHeaderLabels
        expected == ExpectedLabels(tsvSchema)
    IN /\ pc = "tsv_returned" =>
            /\ actual = expected
            /\ tsvOutcome = Some(Returned(tsvResults[1]))
            /\ {tsvResults[1].columns[i] : i \in DOMAIN tsvResults[1].columns} = expected
       /\ (tsvResults # NA /\ actual # expected) =>
            tsvOutcome = Some(Raised(ColumnsError(actual \ expected, expected \ actual)))
       /\ tsvResults = NA => tsvOutcome = Some(Raised(ParseError))

\* C10: the fallback parse completed, and read raised the error naming an
\* extra and a missing column.
C10_Witness ==
  /\ tsvFellBack
  /\ pc = "tsv_raised"
  /\ tsvResults # NA
  /\ tsvOutcome[1].error.what = "columns"
  /\ tsvOutcome[1].error.extra # {}
  /\ tsvOutcome[1].error.missing # {}
(***************************************************************************)
(* main.py, run_scoring, and process_data.py, DataLoader.load: the stages  *)
(* of one run.  What each reader gives (a table, or the exception of       *)
(* TSVReaderBase.read) and what the calls outside these sources give       *)
(* (note_status_history.merge_note_info, algorithm.run_algorithm) are      *)
(* inputs of the run.  No statement of either function is inside a try.    *)
(***************************************************************************)
\* constants.scoredNotesOutputPath
scoredNotesOutputPath == "scoredNotes.tsv"
RunOutputPaths == {scoredNotesOutputPath, "elsewhere.tsv"}
RunNoteRows == {r \in DupNoteRows : r.noteId = "n1" \/ r.summary = "s1"}
RunRatingRows ==
  {r \in LoadFewRows :
     /\ r.helpfulnessLevel = NA /\ r.notHelpful = NA
     /\ (r.noteId = "n1" \/ r.helpful # NA)}
\* The largest number of rows of the notes and of the ratings of a run.
MaxRunRows == 2
ReadOutcomes(tables) ==
  {Raised(ParseError), Raised(ColumnsError({Label("x")}, {Label("noteId")}))}
    \cup {Returned(t) : t \in tables}
ScorerError == [type |-> "Exception", what |-> "scorer", extra |-> {}, missing |-> {}]
MergeError == [type |-> "Exception", what |-> "merge", extra |-> {}, missing |-> {}]
RunScoredNotes ==
  {t \in TablesOf(<<[name |-> "noteId", type |-> "int"]>>) : Len(t.rows) = 1}
RunInputs ==
  [output_path : RunOutputPaths,
   enrollment : ReadOutcomes({<<>>}),
   notes : ReadOutcomes(SeqsUpTo(RunNoteRows, MaxRunRows)),
   nsh : ReadOutcomes(LoadNSHTables),
   mergeRaises : BOOLEAN,
   ratings : ReadOutcomes(SeqsUpTo(RunRatingRows, MaxRunRows)),
   scorer : {Raised(ScorerError)} \cup {Returned(t) : t \in RunScoredNotes}]

RunStages == <<"enrollment", "notes", "nsh", "ratings", "algorithm", "write">>

\* main.py 52-58: the arguments are parsed and the loader is constructed.
InitRun ==
  /\ pc = "run_enrollment"
  /\ runInput \in RunInputs
  /\ runLog = <<>>
  /\ runLoader = <<>>
  /\ runError = NA
  /\ runOutput = NA
  /\ IdleExceptRun

\* An exception leaves the stage, load and run_scoring: nothing catches it.
RunAbort(error) ==
  /\ pc' = "run_aborted"
  /\ runError' = Some(error)
  /\ UNCHANGED <<runLoader, runOutput>>

\* process_data.py 60, 75-76
RunLoadUserEnrollments ==
  /\ pc = "run_enrollment"
  /\ runLog' = Append(runLog, "enrollment")
  /\ LET read == runInput.enrollment
     IN IF read.raised THEN RunAbort(read.error)
        ELSE /\ runLoader' = runLoader @@ [user_enrollments |-> read.value]
             /\ pc' = "run_notes"
             /\ UNCHANGED <<runError, runOutput>>
  /\ UNCHANGED <<runInput, exceptRun>>

\* process_data.py 61, 78-82
RunLoadNotes ==
  /\ pc = "run_notes"
  /\ runLog' = Append(runLog, "notes")
  /\ LET read == runInput.notes
     IN IF read.raised THEN RunAbort(read.error)
        ELSE LET notes == FilterDuplicateNotes(read.value)
             IN IF notes.raised THEN RunAbort(notes.error)
                ELSE /\ runLoader' = runLoader @@ [notes |-> notes.value]
                     /\ pc' = "run_nsh"
                     /\ UNCHANGED <<runError, runOutput>>
  /\ UNCHANGED <<runInput, exceptRun>>

\* process_data.py 64, 84-86.  merge_note_info is outside these sources: it
\* raises or not, and of its result the status history rows are kept.
RunLoadNotesStatusHistory ==
  /\ pc = "run_nsh"
  /\ runLog' = Append(runLog, "nsh")
  /\ LET read == runInput.nsh
     IN IF read.raised THEN RunAbort(read.error)
        ELSE IF runInput.mergeRaises THEN RunAbort(MergeError)
        ELSE /\ runLoader' = runLoader @@ [notes_status_history |-> read.value]
             /\ pc' = "run_ratings"
             /\ UNCHANGED <<runError, runOutput>>
  /\ UNCHANGED <<runInput, exceptRun>>

\* process_data.py 67-73, 88-114, with load's default arguments.
RunLoadRatings ==
  /\ pc = "run_ratings"
  /\ runLog' = Append(runLog, "ratings")
  /\ LET read == runInput.ratings
     IN IF read.raised THEN RunAbort(read.error)
        ELSE LET unique == FilterDuplicateRatings(read.value)
             IN IF unique.raised THEN RunAbort(unique.error)
                ELSE LET populated == [i \in DOMAIN unique.value |->
                                         PopulateHelpfulNum(unique.value[i])]
                         defined == SelectSeq(populated,
                                              LAMBDA row : ~IsNA(row.helpfulNum))
                         ratings == FilterRatingsOfMisleadingNotes(
                                      defined, runLoader.notes_status_history)
                     IN /\ runLoader' = runLoader @@ [ratings |-> ratings]
                        /\ pc' = "run_algorithm"
                        /\ UNCHANGED <<runError, runOutput>>
  /\ UNCHANGED <<runInput, exceptRun>>

\* A plausible slip: the scorer's exception is caught and an empty table is
\* written instead.
MutantRunAlgorithm ==
  /\ pc = "run_algorithm"
  /\ runLog' = Append(runLog, "algorithm")
  /\ runLoader' = runLoader @@
       [scoredNotes |-> IF runInput.scorer.raised
                        THEN [columns |-> <<Label("noteId")>>, rows |-> <<>>]
                        ELSE runInput.scorer.value]
  /\ pc' = "run_write"
  /\ UNCHANGED <<runError, runOutput>>
  /\ UNCHANGED <<runInput, exceptRun>>

\* main.py 60-64
RunAlgorithm ==
  /\ pc = "run_algorithm"
  /\ runLog' = Append(runLog, "algorithm")
  /\ LET scored == runInput.scorer
     IN IF scored.raised THEN RunAbort(scored.error)
        ELSE /\ runLoader' = runLoader @@ [scoredNotes |-> scored.value]
             /\ pc' = "run_write"
             /\ UNCHANGED <<runError, runOutput>>
  /\ UNCHANGED <<runInput, exceptRun>>

\* main.py 65-66: the writer is constructed with constants.scoredNotesOutputPath.
RunWrite ==
  /\ pc = "run_write"
  /\ runLog' = Append(runLog, "write")
  /\ runOutput' = Some([path |-> scoredNotesOutputPath,
                        file |-> to_csv(runLoader.scoredNotes)])
  /\ pc' = "run_finished"
  /\ UNCHANGED <<runLoader, runError>>
  /\ UNCHANGED <<runInput, exceptRun>>

NextRun ==
  \/ RunLoadUserEnrollments
  \/ RunLoadNotes
  \/ RunLoadNotesStatusHistory
  \/ RunLoadRatings
  \/ RunAlgorithm
  \/ RunWrite

SpecRun == InitRun /\ [][NextRun]_vars

\* Two different rows of the table carry the same key.
SharesNoteId(t) ==
  \E i, j \in DOMAIN t : t[i] # t[j] /\ t[i].noteId = t[j].noteId
SharesRaterAndNote(t) ==
  \E i, j \in DOMAIN t :
    /\ t[i] # t[j]
    /\ t[i].noteId = t[j].noteId
    /\ t[i].raterParticipantId = t[j].raterParticipantId

\* Whether the run's inputs make the stage raise.
StageRaises(stage) ==
  CASE stage = "enrollment" -> runInput.enrollment.raised
    [] stage = "notes" ->
         runInput.notes.raised \/ SharesNoteId(runInput.notes.value)
    [] stage = "nsh" -> runInput.nsh.raised \/ runInput.mergeRaises
    [] stage = "ratings" ->
         runInput.ratings.raised \/ SharesRaterAndNote(runInput.ratings.value)
    [] stage = "algorithm" -> runInput.scorer.raised
    [] stage = "write" -> FALSE

RaisingStages == {k \in DOMAIN RunStages : StageRaises(RunStages[k])}

\* C8: the stages run in order and none runs after one that raises: the
\* writer has run, and a file exists, only if every load, filter and the
\* scorer completed; a run whose stage raises ends there with that exception
\* and with no file.
C8_StagesInOrder ==
  /\ \E k \in 0..Len(RunStages) : runLog = SubSeq(RunStages, 1, k)
  /\ \A k \in DOMAIN runLog : \A j \in 1..(k - 1) : j \notin RaisingStages
  /\ runOutput # NA <=> pc = "run_finished"
  /\ pc = "run_finished" => runLog = RunStages /\ RaisingStages = {}
  /\ runError # NA <=> pc = "run_aborted"
  /\ pc = "run_aborted" =>
       /\ Len(runLog) \in RaisingStages
       /\ runOutput = NA
  /\ (RaisingStages # {} /\ pc \notin {"run_aborted", "run_finished"}) =>
       \A k \in RaisingStages : Len(runLog) < k

\* C8: in every run, the writer is invoked only after the four loads, the
\* filters and the scorer have completed without error; a stage that raises
\* ends the run: no later stage executes, the exception is kept as raised and
\* no file is written.
C8_FailFast ==
  /\ []C8_StagesInOrder
  /\ [][pc # "run_aborted" /\ runError = NA /\ (runOutput' # NA => pc = "run_write")]_vars

\* C8: the three loads before it completed, the ratings were read, and their
\* key violation ended the run without a file.
C8_Witness ==
  /\ pc = "run_aborted"
  /\ runLog = SubSeq(RunStages, 1, 4)
  /\ ~runInput.ratings.raised
  /\ runOutput = NA
\* C11 (as stated): for every value of the output-path option (the default
\* when it is omitted), the file run_scoring writes is at that path.
C11_WritesToOption ==
  runOutput # NA => runOutput[1].path = runInput.output_path

\* C11: what run_scoring does: the file it writes is at the default output
\* path, whatever the option holds.
C11_WritesToDefault ==
  runOutput # NA => runOutput[1].path = scoredNotesOutputPath

\* C11: a run given another output path has finished, and its file is at the
\* default path.
C11_OptionIgnored ==
  /\ pc = "run_finished"
  /\ runInput.output_path # scoredNotesOutputPath
  /\ runOutput # NA
  /\ runOutput[1].path = scoredNotesOutputPath
\* Every row of the output is a row of the input ratings with exactly the
\* input's fields.
OutputRowsAreInputRows ==
  \A i \in DOMAIN mlOut :
    /\ \E k \in DOMAIN mlRatings : mlOut[i] = mlRatings[k]
    /\ DOMAIN mlOut[i] = {"raterParticipantId", "noteId", "createdAtMillis"}

\* C12 (as stated): the filter's output is a sub-table of its input ratings:
\* every output row is an input row with exactly the input's fields, and no
\* rating appears in the output more often than in the input, for every
\* history table, one with several rows of the same noteId included.
C12_SubTable ==
  pc = "misleading_done" =>
    /\ OutputRowsAreInputRows
    /\ \A v \in MisleadingRatingRows :
         Occurrences(mlOut, v) <= Occurrences(mlRatings, v)

\* C12: what the filter does keep: the output rows are input rows without the
\* join's and the helper columns, and no rating is repeated when the history
\* holds at most one row for each noteId.
C12_SubTableOfUniqueHistory ==
  pc = "misleading_done" =>
    /\ OutputRowsAreInputRows
    /\ (\A j, k \in DOMAIN mlNSH : mlNSH[j].noteId = mlNSH[k].noteId => j = k)
         => \A v \in MisleadingRatingRows :
              Occurrences(mlOut, v) <= Occurrences(mlRatings, v)

\* C12: the history holds two rows of one noteId, and a rating of that note
\* given once is in the output twice.
C12_RatingRepeated ==
  /\ pc = "misleading_done"
  /\ \E j, k \in DOMAIN mlNSH : j # k /\ mlNSH[j].noteId = mlNSH[k].noteId
  /\ \E v \in MisleadingRatingRows :
       Occurrences(mlRatings, v) = 1 /\ Occurrences(mlOut, v) = 2

=============================================================================
